---- MODULE Spec2Model ----
(***************************************************************************)
(* Model of the LLM cost calculator (src/app.py): the unit converter, the  *)
(* cost calculator, the projection engine and the Streamlit script that    *)
(* drives them.  Python floats and pandas float64 columns are IEEE-754      *)
(* binary64 numbers; they are modelled bit for bit (53-bit significand,     *)
(* round to nearest, ties to even) on top of multi-limb naturals.           *)
(*                                                                         *)
(* The arithmetic is written as functions, not operators: a function        *)
(* application evaluates its arguments once, before the body.               *)
(***************************************************************************)
EXTENDS Integers, Sequences, FiniteSets

(***************************************************************************)
(* Multi-limb naturals: little-endian sequences of limbs below LimbBase,    *)
(* without most-significant zero limbs; <<>> is zero.                       *)
(***************************************************************************)
LimbBase == 2^15

Limbs == Seq(Nat)

IntBitLen[n \in Nat] == IF n = 0 THEN 0 ELSE 1 + IntBitLen[n \div 2]

\* the bits of one limb
LimbBits == IntBitLen[LimbBase - 1]

BFromInt[n \in Nat] ==
    IF n = 0 THEN <<>> ELSE <<n % LimbBase>> \o BFromInt[n \div LimbBase]

BToInt[a \in Limbs] == IF a = <<>> THEN 0 ELSE Head(a) + LimbBase * BToInt[Tail(a)]

BNorm[a \in Limbs] ==
    IF a = <<>> THEN <<>>
    ELSE IF a[Len(a)] = 0 THEN BNorm[SubSeq(a, 1, Len(a) - 1)]
    ELSE a

\* a + b + c
BAddC[a \in Limbs, b \in Limbs, c \in Nat] ==
    IF a = <<>> /\ b = <<>> THEN (IF c = 0 THEN <<>> ELSE <<c>>)
    ELSE IF a = <<>> THEN <<(Head(b) + c) % LimbBase>> \o
                          BAddC[<<>>, Tail(b), (Head(b) + c) \div LimbBase]
    ELSE IF b = <<>> THEN <<(Head(a) + c) % LimbBase>> \o
                          BAddC[Tail(a), <<>>, (Head(a) + c) \div LimbBase]
    ELSE <<(Head(a) + Head(b) + c) % LimbBase>> \o
         BAddC[Tail(a), Tail(b), (Head(a) + Head(b) + c) \div LimbBase]

\* a * k + c for 0 <= k < LimbBase
BMulSmallC[a \in Limbs, k \in Nat, c \in Nat] ==
    IF a = <<>> THEN (IF c = 0 THEN <<>> ELSE <<c>>)
    ELSE <<(Head(a) * k + c) % LimbBase>> \o
         BMulSmallC[Tail(a), k, (Head(a) * k + c) \div LimbBase]

BMulSmall[a \in Limbs, k \in Nat] == IF k = 0 THEN <<>> ELSE BMulSmallC[a, k, 0]

\* a * LimbBase^n
BShiftLimbs[a \in Limbs, n \in Nat] ==
    IF a = <<>> THEN <<>> ELSE [i \in 1..n |-> 0] \o a

\* a * (b[i] + b[i+1] * LimbBase + ...) * LimbBase^(i-1)
BMulFrom[a \in Limbs, b \in Limbs, i \in Nat] ==
    IF i > Len(b) THEN <<>>
    ELSE BAddC[BShiftLimbs[BMulSmall[a, b[i]], i - 1], BMulFrom[a, b, i + 1], 0]

BMul[a \in Limbs, b \in Limbs] == BMulFrom[a, b, 1]

\* Long division of a by d (1 <= d <= LimbBase), most significant limb first: q
\* holds the quotient limbs above position i and r the running remainder.
BDivFrom[a \in Limbs, d \in Nat, i \in Nat, q \in Limbs, r \in Nat] ==
    IF i = 0 THEN [q |-> BNorm[q], r |-> r]
    ELSE BDivFrom[a, d, i - 1, <<(r * LimbBase + a[i]) \div d>> \o q,
                  (r * LimbBase + a[i]) % d]

BDivSmall[a \in Limbs, d \in Nat] == BDivFrom[a, d, Len(a), <<>>, 0]

BitLen[a \in Limbs] ==
    IF a = <<>> THEN 0 ELSE (Len(a) - 1) * LimbBits + IntBitLen[a[Len(a)]]

\* a * 2^s
BShl[a \in Limbs, s \in Nat] ==
    BShiftLimbs[BMulSmall[a, 2^(s % LimbBits)], s \div LimbBits]

AnySet[a \in Limbs] == \E i \in 1..Len(a) : a[i] # 0

\* The limbs of a above the k lowest, divided by d; sticky tells whether anything
\* was cut off.
BCut[a \in Limbs, k \in Nat, d \in Nat] ==
    [q |-> BDivSmall[SubSeq(a, k + 1, Len(a)), d].q,
     sticky |-> \/ BDivSmall[SubSeq(a, k + 1, Len(a)), d].r # 0
                \/ AnySet[SubSeq(a, 1, IF k < Len(a) THEN k ELSE Len(a))]]

\* floor(a / 2^s), and whether any of the s bits shifted out was set
BShr[a \in Limbs, s \in Nat] == BCut[a, s \div LimbBits, 2^(s % LimbBits)]

\* -1, 0, 1 as a < b, a = b, a > b on the limbs up to i (Len(a) = Len(b))
BCmpFrom[a \in Limbs, b \in Limbs, i \in Nat] ==
    IF i = 0 THEN 0
    ELSE IF a[i] < b[i] THEN -1
    ELSE IF a[i] > b[i] THEN 1
    ELSE BCmpFrom[a, b, i - 1]

BCmp[a \in Limbs, b \in Limbs] ==
    IF Len(a) < Len(b) THEN -1
    ELSE IF Len(a) > Len(b) THEN 1
    ELSE BCmpFrom[a, b, Len(a)]

(***************************************************************************)
(* Non-negative finite binary64 numbers: [m, e] stands for m * 2^e with     *)
(* 2^52 <= m < 2^53, and FZero for 0.0.  The program never produces a       *)
(* negative number, an infinity, a NaN or a subnormal from its inputs.      *)
(***************************************************************************)
\* 52 stored significand bits and the implicit leading one
MantBits == 52 + 1

F64 == [m : Limbs, e : Int]

FZero == [m |-> <<>>, e |-> 0]

\* m1 is a significand after rounding up: 2^53 is renormalised to 2^52.
RoundCarry[m1 \in Limbs, e \in Int] ==
    IF BitLen[m1] > MantBits
    THEN [m |-> BDivSmall[m1, 2].q, e |-> e + 1]
    ELSE [m |-> m1, e |-> e]

RoundUp[q \in Limbs, up \in BOOLEAN, e \in Int] ==
    IF up THEN RoundCarry[BAddC[q, <<1>>, 0], e] ELSE [m |-> q, e |-> e]

\* h.q is the 53 significand bits followed by the guard bit, h.sticky and sticky
\* tell of anything below it: round to nearest, ties to the even significand.
RoundHalf[h \in [q : Limbs, sticky : BOOLEAN], e \in Int, sticky \in BOOLEAN] ==
    RoundUp[BDivSmall[h.q, 2].q,
            h.q[1] % 2 = 1 /\ (h.sticky \/ sticky \/ (h.q[1] \div 2) % 2 = 1),
            e]

\* M has L bits
RoundBits[M \in Limbs, L \in Nat, e \in Int, sticky \in BOOLEAN] ==
    IF L <= MantBits
    THEN [m |-> BShl[M, MantBits - L], e |-> e - (MantBits - L)]
    ELSE RoundHalf[BShr[M, L - MantBits - 1], e + (L - MantBits), sticky]

\* The binary64 nearest to (M + f) * 2^e, where 0 <= f < 1 and f > 0 iff sticky
\* (sticky only with L > 53).
RoundF[M \in Limbs, e \in Int, sticky \in BOOLEAN] ==
    IF M = <<>> THEN FZero ELSE RoundBits[M, BitLen[M], e, sticky]

\* float(n) for an int 0 <= n < 2^31
IntToF[n \in Nat] == RoundF[BFromInt[n], 0, FALSE]

FMul[a \in F64, b \in F64] ==
    IF a = FZero \/ b = FZero THEN FZero
    ELSE RoundF[BMul[a.m, b.m], a.e + b.e, FALSE]

FAdd[a \in F64, b \in F64] ==
    IF a = FZero THEN b
    ELSE IF b = FZero THEN a
    ELSE IF a.e >= b.e
    THEN RoundF[BAddC[BShl[a.m, a.e - b.e], b.m, 0], b.e, FALSE]
    ELSE RoundF[BAddC[BShl[b.m, b.e - a.e], a.m, 0], a.e, FALSE]

\* qr is a.m * 2^60 divided by d
FDivRound[qr \in [q : Limbs, r : Nat], e \in Int] == RoundF[qr.q, e, qr.r # 0]

\* a / float(d) for an int 1 <= d < LimbBase
FDivInt[a \in F64, d \in Nat] ==
    IF a = FZero THEN FZero
    ELSE FDivRound[BDivSmall[BShl[a.m, 4 * LimbBits], d], a.e - 4 * LimbBits]

\* int(a): truncation toward zero
Trunc[a \in F64] ==
    IF a = FZero THEN 0
    ELSE IF a.e >= 0 THEN BToInt[BShl[a.m, a.e]]
    ELSE BToInt[BShr[a.m, 0 - a.e].q]

\* a <= b
FLe[a \in F64, b \in F64] ==
    IF a = FZero THEN TRUE
    ELSE IF b = FZero THEN FALSE
    ELSE IF a.e # b.e THEN a.e < b.e
    ELSE BCmp[a.m, b.m] <= 0

\* The float a decimal literal n/d denotes (d a power of ten below LimbBase):
\* the binary64 nearest to the quotient.
Dec[n \in Nat, d \in Nat] == FDivInt[IntToF[n], d]

(***************************************************************************)
(* The program's state.  The widgets of the page (one script run reads each *)
(* of them) double as the arguments of a direct call of an engine function: *)
(*   input_tokens, output_tokens, api_calls, calculate_by, use_case,        *)
(*   growth_option, growth_pct (the slider's percent value), months;        *)
(*   input_value: the argument of convert_input_to_tokens;                  *)
(* and what a run or a call produced:                                       *)
(*   tokens (the converter's result), pricing_df, cost_df, projection_df,   *)
(*   button (what st.button returned in the last run), error (st.error),    *)
(*   sidebar (st.sidebar.info), called (the functions called, in order).    *)
(***************************************************************************)
VARIABLES input_value, calculate_by, tokens,
          input_tokens, output_tokens, api_calls, use_case,
          growth_option, growth_pct, months,
          pricing_df, cost_df, projection_df, button, error, sidebar, called

vars == <<input_value, calculate_by, tokens, input_tokens, output_tokens,
          api_calls, use_case, growth_option, growth_pct, months,
          pricing_df, cost_df, projection_df, button, error, sidebar, called>>

(***************************************************************************)
(* Pricing data                                                            *)
(***************************************************************************)
PricingRow(provider, model, context, rate_in, rate_out, per_call, total) ==
    [Provider |-> provider, Model |-> model, Context |-> context,
     InputRate |-> rate_in, OutputRate |-> rate_out,
     PerCall |-> per_call, Total |-> total]

get_pricing_data ==
    << PricingRow("OpenAI", "GPT-4 Turbo", "128K/4K",
                  Dec[25, 1000], Dec[25, 1000], Dec[25, 1000], Dec[250, 100]),
       PricingRow("Anthropic", "Claude 3 Opus", "200K/4K",
                  Dec[525, 10000], Dec[525, 10000], Dec[525, 10000], Dec[525, 100]),
       PricingRow("Meta (Llama 3)", "Llama 3.1 405b", "128K/2K",
                  Dec[13, 10000], Dec[13, 10000], Dec[13, 10000], Dec[13, 100]),
       PricingRow("Google Gemini", "Gemini 1.5 Flash", "128K",
                  Dec[1, 10000], Dec[1, 10000], Dec[1, 10000], Dec[1, 100]),
       PricingRow("Bedrock", "Amazon Titan Text", "100K/4K",
                  Dec[1000, 10000], Dec[1000, 10000], Dec[2000, 10000], Dec[2000, 100]) >>

(***************************************************************************)
(* Helper functions                                                        *)
(***************************************************************************)
WordsFactor == Dec[13, 10]
CharactersFactor == Dec[25, 100]

\* convert_input_to_tokens with the two ratios exchanged
convert_ratios_exchanged(value, unit) ==
    IF unit = "Tokens" THEN value
    ELSE IF unit = "Words" THEN Trunc[FMul[IntToF[value], CharactersFactor]]
    ELSE IF unit = "Characters" THEN Trunc[FMul[IntToF[value], WordsFactor]]
    ELSE value

convert_input_to_tokens(value, unit) ==
    IF unit = "Tokens" THEN value
    ELSE IF unit = "Words" THEN Trunc[FMul[IntToF[value], WordsFactor]]
    ELSE IF unit = "Characters" THEN Trunc[FMul[IntToF[value], CharactersFactor]]
    ELSE value

\* PerCallCost with the output rate applied to the input tokens and conversely
PerCallCostRatesExchanged(row, in_tok, out_tok) ==
    FAdd[FDivInt[FMul[row.OutputRate, IntToF[in_tok]], 1000],
         FDivInt[FMul[row.InputRate, IntToF[out_tok]], 1000]]

\* rate_in * input_tokens / 1000 + rate_out * output_tokens / 1000, left to right
PerCallCost(row, in_tok, out_tok) ==
    FAdd[FDivInt[FMul[row.InputRate, IntToF[in_tok]], 1000],
         FDivInt[FMul[row.OutputRate, IntToF[out_tok]], 1000]]

\* The one element of a singleton set.  Only({F(x) : x \in {e}}) is F(e) with e
\* evaluated once, before F: an operator's argument is otherwise evaluated again
\* wherever the operator uses it.
Only(S) == CHOOSE x \in S : TRUE

\* df = pricing_df.copy(): the columns are written to the copy
CopyFrame(frame) == frame

\* A row of df after the two column assignments.
CostRow(row, in_tok, out_tok, calls) ==
    Only({ [row EXCEPT !.PerCall = per_call,
                       !.Total = FMul[per_call, IntToF[calls]]] :
           per_call \in {PerCallCost(row, in_tok, out_tok)} })

\* calculate_costs without the .copy(): the columns are written to the caller's frame
calculate_costs_in_place(in_tok, out_tok, calls, pricing) ==
    Only({ [ret |-> df, pricing_df |-> df] :
           df \in {[i \in 1..Len(pricing) |->
                       CostRow(pricing[i], in_tok, out_tok, calls)] \o <<>>} })

\* The returned frame and the caller's frame as the call leaves it.
calculate_costs(in_tok, out_tok, calls, pricing) ==
    Only({ [ret |-> [i \in 1..Len(df) |-> CostRow(df[i], in_tok, out_tok, calls)]
                    \o <<>>,
            pricing_df |-> pricing] :
           df \in {CopyFrame(pricing)} })

\* Series.sum(): the elements added in order, starting from 0.0
FSumFrom[xs \in Seq(F64), i \in Nat, acc \in F64] ==
    IF i > Len(xs) THEN acc ELSE FSumFrom[xs, i + 1, FAdd[acc, xs[i]]]

FSum(xs) == FSumFrom[xs \o <<>>, 1, FZero]

\* GrowthApplies without the month > 1 test
GrowthFromFirstMonth(growth_rate, month) == growth_rate # FZero

\* growth_rate > 0 and month > 1
GrowthApplies(growth_rate, month) == growth_rate # FZero /\ month > 1

\* GrowCalls without the 1 +
GrowCallsByRateOnly(current_api_calls, growth_rate) ==
    Trunc[FMul[IntToF[current_api_calls], growth_rate]]

\* int(current_api_calls * (1 + growth_rate))
GrowCalls(current_api_calls, growth_rate) ==
    Trunc[FMul[IntToF[current_api_calls], FAdd[IntToF[1], growth_rate]]]

\* Accumulate with = in place of +=
AccumulateOverwrites(cumulative_cost, total_cost_month) == total_cost_month

\* cumulative_cost += total_cost_month
Accumulate(cumulative_cost, total_cost_month) ==
    FAdd[cumulative_cost, total_cost_month]

\* PerCallSeries without the output term
PerCallSeriesInputOnly(pricing, in_tok, out_tok) ==
    [i \in 1..Len(pricing) |->
        FDivInt[FMul[pricing[i].InputRate, IntToF[in_tok]], 1000]] \o <<>>

\* (rate_in * input_tokens / 1000 + rate_out * output_tokens / 1000) per row: the
\* factor of cost_month that does not change from month to month.
PerCallSeries(pricing, in_tok, out_tok) ==
    [i \in 1..Len(pricing) |-> PerCallCost(pricing[i], in_tok, out_tok)] \o <<>>

\* cost_month.sum() for a month with `calls` API calls
TotalCostMonth(per_call, calls) ==
    Only({ FSum([i \in 1..Len(per_call) |-> FMul[per_call[i], calls_f]]) :
           calls_f \in {IntToF[calls]} })

\* ProjectionRow with the two cost columns exchanged
ProjectionRowColumnsExchanged(per_call, total_tokens, month, current_api_calls, cumulative_cost) ==
    Only({ [Month |-> month, APICalls |-> current_api_calls,
            TotalTokens |-> total_tokens,
            TotalCost |-> Accumulate(cumulative_cost, total_cost_month),
            CumulativeCost |-> total_cost_month] :
           total_cost_month \in {TotalCostMonth(per_call, current_api_calls)} })

\* The row appended for `month`, once current_api_calls has been updated.
ProjectionRow(per_call, total_tokens, month, current_api_calls, cumulative_cost) ==
    Only({ [Month |-> month, APICalls |-> current_api_calls,
            TotalTokens |-> total_tokens,
            TotalCost |-> total_cost_month,
            CumulativeCost |-> Accumulate(cumulative_cost, total_cost_month)] :
           total_cost_month \in {TotalCostMonth(per_call, current_api_calls)} })

\* One pass of the loop body.
MonthRow(per_call, growth_rate, total_tokens, month, current_api_calls, cumulative_cost) ==
    Only({ ProjectionRow(per_call, total_tokens, month, calls, cumulative_cost) :
           calls \in {IF GrowthApplies(growth_rate, month)
                      THEN GrowCalls(current_api_calls, growth_rate)
                      ELSE current_api_calls} })

\* The loop of project_costs from `month` on.
RECURSIVE ProjectFrom(_, _, _, _, _, _, _, _)
ProjectFrom(per_call, n_months, growth_rate, total_tokens, month, current_api_calls, cumulative_cost, projection) ==
    IF month > n_months THEN projection
    ELSE Only({ ProjectFrom(per_call, n_months, growth_rate, total_tokens,
                            month + 1, row.APICalls, row.CumulativeCost,
                            Append(projection, row)) :
                row \in {MonthRow(per_call, growth_rate, total_tokens, month,
                                  current_api_calls, cumulative_cost)} })

\* project_costs with range(1, months) in place of range(1, months + 1)
project_costs_one_month_short(pricing, n_months, growth_rate, initial_api_calls, in_tok, out_tok) ==
    Only({ ProjectFrom(per_call, n_months - 1, rate, in_tok + out_tok,
                       1, initial_api_calls, FZero, <<>>) :
           per_call \in {PerCallSeries(pricing, in_tok, out_tok)},
           rate \in {growth_rate} })

project_costs(pricing, n_months, growth_rate, initial_api_calls, in_tok, out_tok) ==
    Only({ ProjectFrom(per_call, n_months, rate, in_tok + out_tok,
                       1, initial_api_calls, FZero, <<>>) :
           per_call \in {PerCallSeries(pricing, in_tok, out_tok)},
           rate \in {growth_rate} })

\* slider value / 100.0
PctToRate(pct) == FDivInt[IntToF[pct], 100]

(***************************************************************************)
(* The Streamlit script: one run of main() over the widgets' values w, with *)
(* the Calculate button pressed or not.  It yields what the run leaves on   *)
(* the page.                                                               *)
(***************************************************************************)
NoFrame == <<>>
NoTokens == 0 - 1
NoError == ""
ZeroCallsError == "Number of API calls must be greater than 0."

\* Calculate without the api_calls == 0 test
CalculateUnvalidated(w, in_tok, out_tok, growth_rate, pricing, info, conv) ==
    Only({ [pricing_df |-> calc.pricing_df, cost_df |-> calc.ret,
            projection_df |->
                project_costs(calc.pricing_df, w.months, growth_rate,
                              w.api_calls, in_tok, out_tok),
            button |-> TRUE, error |-> NoError, sidebar |-> info,
            called |-> conv \o <<"get_pricing_data", "calculate_costs",
                                 "project_costs">>] :
           calc \in {calculate_costs(in_tok, out_tok, w.api_calls, pricing)} })

\* The part of a run behind the Calculate button.
Calculate(w, in_tok, out_tok, growth_rate, pricing, info, conv) ==
    IF w.api_calls = 0
    THEN [pricing_df |-> pricing, cost_df |-> NoFrame, projection_df |-> NoFrame,
          button |-> TRUE, error |-> ZeroCallsError, sidebar |-> info,
          called |-> conv \o <<"get_pricing_data">>]
    ELSE Only({ [pricing_df |-> calc.pricing_df, cost_df |-> calc.ret,
                 projection_df |->
                     project_costs(calc.pricing_df, w.months, growth_rate,
                                   w.api_calls, in_tok, out_tok),
                 button |-> TRUE, error |-> NoError, sidebar |-> info,
                 called |-> conv \o <<"get_pricing_data", "calculate_costs",
                                      "project_costs">>] :
                calc \in {calculate_costs(in_tok, out_tok, w.api_calls, pricing)} })

\* The token count a run works on: the number entered, converted unless it is
\* already a number of tokens.
entered_tokens(value, unit) ==
    IF unit # "Tokens" THEN convert_input_to_tokens(value, unit) ELSE value

main(w, pressed) ==
    LET converting == w.calculate_by # "Tokens"
        conv == IF converting
                THEN <<"convert_input_to_tokens", "convert_input_to_tokens">>
                ELSE <<>>
    IN  Only({ LET info == IF converting
                           THEN << <<w.input_tokens, w.calculate_by, in_tok>>,
                                   <<w.output_tokens, w.calculate_by, out_tok>> >>
                           ELSE <<>>
               IN  IF pressed
                   THEN Calculate(w, in_tok, out_tok, growth_rate, pricing, info, conv)
                   ELSE [pricing_df |-> pricing, cost_df |-> NoFrame,
                         projection_df |-> NoFrame, button |-> FALSE,
                         error |-> NoError, sidebar |-> info,
                         called |-> conv \o <<"get_pricing_data">>] :
               in_tok \in {entered_tokens(w.input_tokens, w.calculate_by)},
               out_tok \in {entered_tokens(w.output_tokens, w.calculate_by)},
               growth_rate \in {IF w.use_case = "Financial" \/ w.growth_option = "Yes"
                                THEN PctToRate(w.growth_pct)
                                ELSE FZero},
               pricing \in {get_pricing_data} })

(***************************************************************************)
(* The page: the widgets' defaults and the values a user sets them to.      *)
(***************************************************************************)
DefaultInputTokens == 1000
DefaultOutputTokens == 500
DefaultApiCalls == 100
DefaultMonths == 12
DefaultGrowthPct == 5
DefaultFinancialGrowthPct == 10

InputTokenSettings == {DefaultInputTokens, 1300}
OutputTokenSettings == {DefaultOutputTokens, 0}
ApiCallSettings == {DefaultApiCalls, 10, 0}
UnitOptions == {"Tokens", "Words", "Characters"}
UseCases == {"General", "Financial"}
MonthSettings == {1, 2, DefaultMonths}
GrowthSettings == {DefaultGrowthPct, 13, 100}
FinancialGrowthSettings == {DefaultFinancialGrowthPct, 0, 50}
NotRendered == "not rendered"

Widgets ==
    [input_tokens |-> input_tokens, output_tokens |-> output_tokens,
     api_calls |-> api_calls, calculate_by |-> calculate_by, use_case |-> use_case,
     growth_option |-> growth_option, growth_pct |-> growth_pct, months |-> months]

\* Streamlit reruns the script on every interaction; the page then shows the
\* widgets' new values and what that run produced.
Rerun(w, pressed) ==
    \E out \in {main(w, pressed)} :
        /\ input_tokens' = w.input_tokens
        /\ output_tokens' = w.output_tokens
        /\ api_calls' = w.api_calls
        /\ calculate_by' = w.calculate_by
        /\ use_case' = w.use_case
        /\ growth_option' = w.growth_option
        /\ growth_pct' = w.growth_pct
        /\ months' = w.months
        /\ pricing_df' = out.pricing_df
        /\ cost_df' = out.cost_df
        /\ projection_df' = out.projection_df
        /\ button' = out.button
        /\ error' = out.error
        /\ sidebar' = out.sidebar
        /\ called' = out.called
        /\ UNCHANGED <<input_value, tokens>>

DefaultWidgets ==
    [input_tokens |-> DefaultInputTokens, output_tokens |-> DefaultOutputTokens,
     api_calls |-> DefaultApiCalls, calculate_by |-> "Tokens", use_case |-> "General",
     growth_option |-> "No", growth_pct |-> 0, months |-> DefaultMonths]

Init ==
    \E out \in {main(DefaultWidgets, FALSE)} :
        /\ input_tokens = DefaultInputTokens
        /\ output_tokens = DefaultOutputTokens
        /\ api_calls = DefaultApiCalls
        /\ calculate_by = "Tokens"
        /\ use_case = "General"
        /\ growth_option = "No"
        /\ growth_pct = 0
        /\ months = DefaultMonths
        /\ pricing_df = out.pricing_df
        /\ cost_df = out.cost_df
        /\ projection_df = out.projection_df
        /\ button = out.button
        /\ error = out.error
        /\ sidebar = out.sidebar
        /\ called = out.called
        /\ input_value = 0
        /\ tokens = NoTokens

SetInputTokens ==
    \E v \in InputTokenSettings \ {input_tokens} :
        Rerun([Widgets EXCEPT !.input_tokens = v], FALSE)

SetOutputTokens ==
    \E v \in OutputTokenSettings \ {output_tokens} :
        Rerun([Widgets EXCEPT !.output_tokens = v], FALSE)

SetApiCalls ==
    \E v \in ApiCallSettings \ {api_calls} :
        Rerun([Widgets EXCEPT !.api_calls = v], FALSE)

SetCalculateBy ==
    \E u \in UnitOptions \ {calculate_by} :
        Rerun([Widgets EXCEPT !.calculate_by = u], FALSE)

\* The other use case's widgets appear with their defaults.
SetUseCase ==
    \E u \in UseCases \ {use_case} :
        Rerun([Widgets EXCEPT
                 !.use_case = u,
                 !.growth_option = IF u = "General" THEN "No" ELSE NotRendered,
                 !.growth_pct = IF u = "General" THEN 0 ELSE DefaultFinancialGrowthPct,
                 !.months = DefaultMonths], FALSE)

\* "Yes" shows the growth slider at its default; "No" removes it.
SetGrowthOption ==
    /\ use_case = "General"
    /\ \E o \in {"No", "Yes"} \ {growth_option} :
          Rerun([Widgets EXCEPT
                   !.growth_option = o,
                   !.growth_pct = IF o = "Yes" THEN DefaultGrowthPct ELSE 0], FALSE)

SetGrowthRate ==
    \/ /\ use_case = "General"
       /\ growth_option = "Yes"
       /\ \E p \in GrowthSettings \ {growth_pct} :
             Rerun([Widgets EXCEPT !.growth_pct = p], FALSE)
    \/ /\ use_case = "Financial"
       /\ \E p \in FinancialGrowthSettings \ {growth_pct} :
             Rerun([Widgets EXCEPT !.growth_pct = p], FALSE)

SetMonths ==
    \E n \in MonthSettings \ {months} :
        Rerun([Widgets EXCEPT !.months = n], FALSE)

ClickCalculate == \E pressed \in {TRUE} : Rerun(Widgets, pressed)

Next ==
    \/ SetInputTokens
    \/ SetOutputTokens
    \/ SetApiCalls
    \/ SetCalculateBy
    \/ SetUseCase
    \/ SetGrowthOption
    \/ SetGrowthRate
    \/ SetMonths
    \/ ClickCalculate

Spec == Init /\ [][Next]_vars

(***************************************************************************)
(* A direct call of convert_input_to_tokens, on any value up to MaxValue    *)
(* and any unit selector, one the page does not offer included.             *)
(***************************************************************************)
MaxValue == 40

UnitSelectors == UnitOptions \cup {"Sentences"}

PageIdle ==
    /\ input_tokens = 0
    /\ output_tokens = 0
    /\ api_calls = 0
    /\ use_case = "General"
    /\ growth_option = "No"
    /\ growth_pct = 0
    /\ months = 1
    /\ pricing_df = NoFrame
    /\ cost_df = NoFrame
    /\ projection_df = NoFrame
    /\ button = FALSE
    /\ error = NoError
    /\ sidebar = <<>>
    /\ called = <<>>

ConvertInit ==
    /\ input_value \in 0..MaxValue
    /\ calculate_by \in UnitSelectors
    /\ tokens = NoTokens
    /\ PageIdle

CallConvert ==
    /\ tokens = NoTokens
    /\ tokens' = convert_input_to_tokens(input_value, calculate_by)
    /\ UNCHANGED <<input_value, calculate_by, input_tokens, output_tokens, api_calls,
                   use_case, growth_option, growth_pct, months, pricing_df, cost_df,
                   projection_df, button, error, sidebar, called>>

ConvertNext == CallConvert

SpecConvert == ConvertInit /\ [][ConvertNext]_vars

(***************************************************************************)
(* Direct calls of calculate_costs and project_costs, in either order, on   *)
(* one pricing table and one set of arguments.                              *)
(***************************************************************************)
MaxMonths == 6

\* A second table: a free model, and one whose input and output rates differ.
OtherPricing ==
    << PricingRow("Local", "Free", "8K", FZero, FZero, FZero, FZero),
       PricingRow("Acme", "Asymmetric", "16K",
                  Dec[3, 1000], Dec[15, 1000], Dec[18, 1000], Dec[180, 100]) >>

PricingTables == {get_pricing_data, OtherPricing}
EngineInputTokens == {0, DefaultInputTokens}
EngineOutputTokens == {0, DefaultOutputTokens}
EngineApiCalls == {0, 1, 10, DefaultApiCalls}
EngineGrowthPcts == {0, DefaultFinancialGrowthPct, 13, 50, 100}

Called(f) == \E i \in 1..Len(called) : called[i] = f

EngineInit ==
    /\ pricing_df \in PricingTables
    /\ input_tokens \in EngineInputTokens
    /\ output_tokens \in EngineOutputTokens
    /\ api_calls \in EngineApiCalls
    /\ growth_pct \in EngineGrowthPcts
    /\ months \in 1..MaxMonths
    /\ cost_df = NoFrame
    /\ projection_df = NoFrame
    /\ called = <<>>
    /\ input_value = 0
    /\ calculate_by = "Tokens"
    /\ tokens = NoTokens
    /\ use_case = "General"
    /\ growth_option = "Yes"
    /\ button = FALSE
    /\ error = NoError
    /\ sidebar = <<>>

CallCalculateCosts ==
    /\ ~Called("calculate_costs")
    /\ \E r \in {calculate_costs(input_tokens, output_tokens, api_calls, pricing_df)} :
          /\ cost_df' = r.ret
          /\ pricing_df' = r.pricing_df
    /\ called' = Append(called, "calculate_costs")
    /\ UNCHANGED <<input_value, calculate_by, tokens, input_tokens, output_tokens,
                   api_calls, use_case, growth_option, growth_pct, months,
                   projection_df, button, error, sidebar>>

CallProjectCosts ==
    /\ ~Called("project_costs")
    /\ projection_df' = project_costs(pricing_df, months, PctToRate(growth_pct),
                                      api_calls, input_tokens, output_tokens)
    /\ called' = Append(called, "project_costs")
    /\ UNCHANGED <<input_value, calculate_by, tokens, input_tokens, output_tokens,
                   api_calls, use_case, growth_option, growth_pct, months,
                   pricing_df, cost_df, button, error, sidebar>>

EngineNext == CallCalculateCosts \/ CallProjectCosts

SpecEngine == EngineInit /\ [][EngineNext]_vars

(***************************************************************************)
(* Properties                                                              *)
(***************************************************************************)
Projected == Called("project_costs")
Costed == Called("calculate_costs")
Months == 1..Len(projection_df)
growth_rate == PctToRate(growth_pct)
CumulativeBefore(m) == IF m = 1 THEN FZero ELSE projection_df[m - 1].CumulativeCost

\* C1: with a positive growth rate, row 1 of the projection has the initial
\* number of API calls and every later row has the previous row's number times
\* (1 + growth rate), truncated to an integer; 10 calls at 50% over 3 months
\* give 10, 15, 22.
C1_StepwiseTruncatingGrowth ==
    (Projected /\ growth_pct > 0) =>
        /\ projection_df[1].APICalls = api_calls
        /\ \A k \in Months \ {1} :
              projection_df[k].APICalls =
                  Trunc[FMul[IntToF[projection_df[k - 1].APICalls],
                             FAdd[IntToF[1], growth_rate]]]
        /\ (api_calls = 10 /\ growth_pct = 50 /\ months = 3) =>
              [k \in Months |-> projection_df[k].APICalls] = <<10, 15, 22>>

C1_Witness ==
    /\ Projected
    /\ api_calls = DefaultApiCalls
    /\ growth_pct = 13
    /\ months >= 3
    /\ projection_df[1].APICalls = DefaultApiCalls
    /\ projection_df[2].APICalls = 112
    /\ projection_df[3].APICalls = 126

\* C2: in every projection the cumulative cost of a month is the cumulative
\* cost of the month before (0 before month 1) plus the month's total cost, and
\* it never decreases from one month to the next.
C2_CumulativeIsRunningSum ==
    Projected =>
        \A m \in Months :
            /\ projection_df[m].CumulativeCost =
                   FAdd[CumulativeBefore(m), projection_df[m].TotalCost]
            /\ FLe[CumulativeBefore(m), projection_df[m].CumulativeCost]

C2_Witness ==
    /\ Projected
    /\ Len(projection_df) >= 3
    /\ projection_df[1].CumulativeCost # FZero
    /\ projection_df[2].CumulativeCost # projection_df[1].CumulativeCost
    /\ projection_df[3].CumulativeCost # projection_df[2].CumulativeCost
    /\ projection_df[3].CumulativeCost # projection_df[3].TotalCost

\* C3: a click on Calculate with api_calls = 0 shows the validation error and
\* nothing else: no cost rows, no projection rows, and neither calculate_costs
\* nor project_costs is called.
C3_ZeroCallsRejected ==
    (button /\ api_calls = 0) =>
        /\ error = ZeroCallsError
        /\ cost_df = NoFrame
        /\ projection_df = NoFrame
        /\ ~Costed
        /\ ~Projected

C3_Witness ==
    /\ button
    /\ api_calls = 0
    /\ error = ZeroCallsError
    /\ called # <<>>

\* C4: project_costs over N months returns N rows whose Month fields are
\* 1, 2, ..., N in order; over one month it returns one row with the initial
\* number of API calls and a cumulative cost equal to its total cost, whatever
\* the growth rate.
C4_OneRowPerMonth ==
    Projected =>
        /\ Len(projection_df) = months
        /\ \A k \in Months : projection_df[k].Month = k
        /\ months = 1 =>
              /\ projection_df[1].APICalls = api_calls
              /\ projection_df[1].CumulativeCost = projection_df[1].TotalCost

C4_Witness ==
    /\ Projected
    /\ months = 1
    /\ growth_pct > 0
    /\ api_calls = DefaultApiCalls
    /\ Len(projection_df) = 1
    /\ projection_df[1].TotalCost # FZero

\* C5, as stated: with growth rate 0 every row has the initial number of API
\* calls, every row has the same total cost, and the cumulative cost of the
\* last row, row N, is N times the total cost of row 1.
C5_AsStated ==
    (Projected /\ growth_pct = 0) =>
        /\ \A k \in Months : projection_df[k].APICalls = api_calls
        /\ \A k \in Months : projection_df[k].TotalCost = projection_df[1].TotalCost
        /\ projection_df[Len(projection_df)].CumulativeCost =
               FMul[IntToF[Len(projection_df)], projection_df[1].TotalCost]

\* C5, amended: with growth rate 0 every row has the initial number of API
\* calls, every row has the same total cost, the cumulative cost of each row
\* is the cumulative cost of the row before plus that total cost, and it is N
\* times the total cost of row 1 in every row N up to the fifth.
C5_ConstantWithoutGrowth ==
    (Projected /\ growth_pct = 0) =>
        /\ \A k \in Months : projection_df[k].APICalls = api_calls
        /\ \A k \in Months : projection_df[k].TotalCost = projection_df[1].TotalCost
        /\ \A k \in Months :
              projection_df[k].CumulativeCost =
                  FAdd[CumulativeBefore(k), projection_df[1].TotalCost]
        /\ \A k \in Months :
              k <= 5 => projection_df[k].CumulativeCost =
                            FMul[IntToF[k], projection_df[1].TotalCost]

C5_Witness ==
    /\ Projected
    /\ growth_pct = 0
    /\ api_calls = DefaultApiCalls
    /\ Len(projection_df) >= 5
    /\ projection_df[1].TotalCost # FZero
    /\ projection_df[5].APICalls = DefaultApiCalls
    /\ projection_df[5].CumulativeCost = FMul[IntToF[5], projection_df[1].TotalCost]

\* C6: calculate_costs returns one row per pricing entry, in the table's order;
\* each row's per-call cost is input rate * input tokens / 1000 + output rate *
\* output tokens / 1000, and its total cost is that per-call cost * api_calls.
C6_CostRows ==
    Costed =>
        /\ Len(cost_df) = Len(pricing_df)
        /\ \A i \in 1..Len(cost_df) :
              /\ cost_df[i].Provider = pricing_df[i].Provider
              /\ cost_df[i].Model = pricing_df[i].Model
              /\ cost_df[i].Context = pricing_df[i].Context
              /\ cost_df[i].InputRate = pricing_df[i].InputRate
              /\ cost_df[i].OutputRate = pricing_df[i].OutputRate
              /\ cost_df[i].PerCall =
                     FAdd[FDivInt[FMul[pricing_df[i].InputRate,
                                       IntToF[input_tokens]], 1000],
                          FDivInt[FMul[pricing_df[i].OutputRate,
                                       IntToF[output_tokens]], 1000]]
              /\ cost_df[i].Total = FMul[cost_df[i].PerCall, IntToF[api_calls]]

C6_Witness ==
    /\ Costed
    /\ pricing_df = OtherPricing
    /\ input_tokens = DefaultInputTokens
    /\ output_tokens = DefaultOutputTokens
    /\ api_calls = 10
    /\ Len(cost_df) = 2
    /\ cost_df[1].Total = FZero
    /\ cost_df[2].PerCall = FAdd[Dec[3, 1000], Dec[75, 10000]]
    /\ cost_df[2].Total # pricing_df[2].Total

\* C7: convert_input_to_tokens returns v for Tokens, the integer part of
\* 1.3 v for Words, the integer part of 0.25 v for Characters, and v for a
\* unit selector it does not know.
C7_Conversion ==
    tokens # NoTokens =>
        tokens = CASE calculate_by = "Tokens" -> input_value
                   [] calculate_by = "Words" -> (13 * input_value) \div 10
                   [] calculate_by = "Characters" -> input_value \div 4
                   [] OTHER -> input_value

C7_Witness ==
    /\ calculate_by = "Words"
    /\ input_value = 7
    /\ tokens = 9

\* C8: no call of calculate_costs or project_costs changes the pricing table
\* it is given: the entries, their order and every field of them stay as they
\* were, the results going to other rows.
C8_PricingTableUnchanged == [][pricing_df' = pricing_df]_vars

C8_Witness ==
    /\ Costed
    /\ Projected
    /\ pricing_df = get_pricing_data
    /\ api_calls = 10
    /\ input_tokens = DefaultInputTokens
    /\ cost_df # pricing_df
    /\ Len(projection_df) = months

\* C9: after one Calculate, the total cost of month 1 of the projection is the
\* sum of the total costs of the cost table, and the total cost of every month
\* is the sum of the total costs calculate_costs gives for that month's number
\* of API calls.
C9_ProjectionAgreesWithCosts ==
    (Costed /\ Projected) =>
        /\ projection_df[1].TotalCost =
               FSum([i \in 1..Len(cost_df) |-> cost_df[i].Total])
        /\ \A m \in Months :
              \E costs \in {calculate_costs(entered_tokens(input_tokens, calculate_by),
                                            entered_tokens(output_tokens, calculate_by),
                                            projection_df[m].APICalls,
                                            pricing_df).ret} :
                  projection_df[m].TotalCost =
                      FSum([i \in 1..Len(costs) |-> costs[i].Total])

C9_Witness ==
    /\ button
    /\ Costed
    /\ Projected
    /\ output_tokens = DefaultOutputTokens
    /\ growth_pct = 13
    /\ months = DefaultMonths
    /\ projection_df[DefaultMonths].APICalls > api_calls
    /\ projection_df[DefaultMonths].TotalCost # projection_df[1].TotalCost

\* C10: with a growth rate between 0 and 1 the number of API calls never
\* decreases from one month to the next, and once a growth step has left it
\* unchanged it keeps that value in every later month.
C10_NeverDecreasesAndPlateaus ==
    Projected =>
        /\ \A k \in Months \ {1} :
              projection_df[k - 1].APICalls <= projection_df[k].APICalls
        /\ \A k \in Months \ {1} :
              projection_df[k].APICalls = projection_df[k - 1].APICalls =>
                  \A j \in Months : j > k =>
                      projection_df[j].APICalls = projection_df[k].APICalls

C10_Witness ==
    /\ Projected
    /\ api_calls = 1
    /\ growth_pct = 50
    /\ months >= 3
    /\ \A k \in Months : projection_df[k].APICalls = 1

====
